---- MODULE Spec2Model ----
(***************************************************************************)
(* Model of coreapi/help/doc/sphinx/gendoc.py: the Sphinx page builders    *)
(* (IndexPage, EnumsPage, ClassPage), SphinxPage.write, and                *)
(* DocGenerator.generate driven by the __main__ block.                     *)
(*                                                                         *)
(* Strings that the code builds are sequences of tokens, so that           *)
(* 'a' + '_' + 'b' + '.rst' is <<"a", "_", "b", ".rst">>.                 *)
(* A Python value whose type matters is [type |-> ..., val |-> ...].       *)
(***************************************************************************)
EXTENDS Integers, Sequences, FiniteSets, TLC

\* ------------------------------------------------------------------- state
VARIABLES
    argv,          \* the command line: the xml directory's content and -o
    args,          \* module global args (argparse result), None before line 198
    absApiParser,  \* module global absApiParser, None before line 204
    docGenerator,  \* the DocGenerator object, None before line 207
    outputdir,     \* the argument of generate, "" before the call
    pc,            \* position of the script
    langIdx,       \* generate: position of the loop over self.languages
    directory,     \* generate: local directory, <<>> before it is set
    enumsPage,     \* generate: local enumsPage
    indexPage,     \* generate: local indexPage
    classIdx,      \* generate: position of the loop over the classes
    page,          \* generate: local page
    fs,            \* the file system
    exc,           \* the exception that ended the script, "none" otherwise
    run,           \* number of the current execution of the script
    runStartFs,    \* the file system when the current execution started
    log,           \* the writes and index entries of the current execution
    mkdirCalls,    \* calls of os.mkdir in the current execution
    call,          \* the last direct call of a constructor (library use)
    ioFault,       \* the system refused an operation in the current execution
    failedPath     \* <<path>> of the file whose write failed, <<>> otherwise

vars == <<argv, args, absApiParser, docGenerator, outputdir, pc, langIdx, directory,
          enumsPage, indexPage, classIdx, page, fs, exc, run, runStartFs, log,
          mkdirCalls, call, ioFault, failedPath>>

\* ------------------------------------------------------------------ bounds
MaxClasses == 2
MaxEnums == 2
MaxRuns == 2

\* ------------------------------------------------------------- input data
\* Output directories a caller may name.
Dirs == {"out1", "out2"}

\* Language strings a caller may pass to a page constructor.
LangStrings == {"C", "c", "C++", "c++", "Java", "CPP", "Cpp", ""}

\* A name is the chain of its segments (namespaces, then the entity), each
\* segment being its list of lower-case words.
NameFooBar == << <<"foo">>, <<"bar">> >>
NameFooBarBaz == << <<"foo">>, <<"bar", "baz">> >>
NameFoobarBaz == << <<"foo", "bar">>, <<"baz">> >>
NameFooQux == << <<"foo">>, <<"qux">> >>

ClassPool ==
    { [name |-> NameFooBar, instanceMethods |-> <<>>, classMethods |-> <<"create", "destroy">>],
      [name |-> NameFooBarBaz, instanceMethods |-> <<"doThing">>, classMethods |-> <<>>],
      [name |-> NameFoobarBaz, instanceMethods |-> <<"get", "set">>, classMethods |-> <<"make">>],
      [name |-> NameFooQux, instanceMethods |-> <<>>, classMethods |-> <<>>] }

EnumPool ==
    { [name |-> << <<"foo">>, <<"color">> >>, enumerators |-> <<"C", "A", "B">>],
      [name |-> << <<"foo">>, <<"mode">> >>, enumerators |-> <<"Z", "Y">>] }

\* Sequences without repetition of at most n elements of S (a dict's values).
SeqsUpTo(S, n) ==
    UNION { { s \in [1..k -> S] : \A i, j \in 1..k : s[i] = s[j] => i = j } : k \in 0..n }

\* The contents of the parser's indices, in their iteration order.
Projects ==
    { [enumsIndex |-> e, classesIndex |-> c] :
        e \in SeqsUpTo(EnumPool, MaxEnums), c \in SeqsUpTo(ClassPool, MaxClasses) }

\* An api object other than the one the script parsed.
OtherApi ==
    [kind |-> "CParser", enumsIndex |-> <<>>,
     classesIndex |-> << [name |-> NameFooQux, instanceMethods |-> <<"only">>, classMethods |-> <<>>] >>]

None == [kind |-> "None"]

\* ------------------------------------------------------ strings and names
\* str.lower() on the language strings.
Lower(s) ==
    CASE s = "C" -> "c"
      [] s = "C++" -> "c++"
      [] s = "Java" -> "java"
      [] s = "CPP" -> "cpp"
      [] s = "Cpp" -> "cpp"
      [] OTHER -> s

\* '_'.join(words)
RECURSIVE JoinUnderscore(_)
JoinUnderscore(words) ==
    IF words = <<>> THEN <<>>
    ELSE IF Len(words) = 1 THEN <<words[1]>>
    ELSE <<words[1], "_">> \o JoinUnderscore(Tail(words))

\* Name.to_snake_case(fullName): the words of the last segment, or of the
\* whole chain when fullName is set, joined by underscores.
RECURSIVE AllWords(_)
AllWords(name) ==
    IF name = <<>> THEN <<>> ELSE name[1] \o AllWords(Tail(name))

to_snake_case(name, fullName) ==
    IF fullName THEN JoinUnderscore(AllWords(name))
    ELSE JoinUnderscore(name[Len(name)])

\* The translators are applied as uninterpreted functions of their inputs.
name_translate(name, translator, recursive) ==
    [by |-> translator, of |-> name, recursive |-> recursive]

doc_translate(entity, translator) ==
    [by |-> translator, briefOf |-> entity]

translate_value(enumerator, translator) ==
    [by |-> translator, valueOf |-> enumerator]

translate_as_prototype(method, translator) ==
    [by |-> translator, prototypeOf |-> method]

\* RstTools.make_section(text, char, overline)
make_section(text, char, overline) ==
    LET underline == [char |-> char, size |-> text]
        lines == <<text, underline>>
    IN  IF overline THEN <<underline>> \o lines ELSE lines

make_chapter(text) == make_section(text, "*", TRUE)

\* ------------------------------------------------------------------ pages
Raise(e) == [kind |-> "Raise", exc |-> e]

\* Variant: an unknown language falls back to the C translators.
_init_translation_info_default_c(language) ==
    IF Lower(language) = "c++"
    THEN [exc |-> "none", nameTranslator |-> "CppTranslator", langTranslator |-> "CppLangTranslator",
          docTranslator |-> [kind |-> "SphinxTranslator", nameTranslator |-> "CppTranslator"]]
    ELSE [exc |-> "none", nameTranslator |-> "CTranslator", langTranslator |-> "CLangTranslator",
          docTranslator |-> [kind |-> "SphinxTranslator", nameTranslator |-> "CTranslator"]]

\* SphinxPage._init_translation_info: the translators of a language, or
\* ValueError for a language that is neither C nor C++.
_init_translation_info(language) ==
    IF Lower(language) = "c"
    THEN [exc |-> "none", nameTranslator |-> "CTranslator", langTranslator |-> "CLangTranslator",
          docTranslator |-> [kind |-> "SphinxTranslator", nameTranslator |-> "CTranslator"]]
    ELSE IF Lower(language) = "c++"
    THEN [exc |-> "none", nameTranslator |-> "CppTranslator", langTranslator |-> "CppLangTranslator",
          docTranslator |-> [kind |-> "SphinxTranslator", nameTranslator |-> "CppTranslator"]]
    ELSE [exc |-> "ValueError"]

\* SphinxPage.__init__: the fields common to every page.
SphinxPage_init(language, filename) ==
    LET info == _init_translation_info(language)
    IN  IF info.exc # "none" THEN Raise(info.exc)
        ELSE [kind |-> "SphinxPage", language |-> language, filename |-> filename,
              nameTranslator |-> info.nameTranslator, langTranslator |-> info.langTranslator,
              docTranslator |-> info.docTranslator]

\* SphinxPage._classname_to_filename
_classname_to_filename(classname) == to_snake_case(classname, TRUE) \o <<".rst">>

\* Variant: the entry list of the previous index page is kept.
IndexPage_init_shared(language) ==
    LET base == SphinxPage_init(language, <<"index", ".rst">>)
    IN  IF base.kind = "Raise" THEN base
        ELSE [kind |-> "IndexPage",
              tocEntries |-> IF indexPage.kind = "IndexPage" THEN indexPage.tocEntries ELSE <<>>]
             @@ base

\* IndexPage.__init__
IndexPage_init(language) ==
    LET base == SphinxPage_init(language, <<"index", ".rst">>)
    IN  IF base.kind = "Raise" THEN base
        ELSE [kind |-> "IndexPage", tocEntries |-> <<>>] @@ base

\* Variant: the entry is derived from the bare class name.
add_class_entry_bare(self, _class) ==
    [self EXCEPT !.tocEntries =
        Append(@, [entryName |-> to_snake_case(_class.name, FALSE) \o <<".rst">>])]

\* IndexPage.add_class_entry: the page with one more entry.
add_class_entry(self, _class) ==
    [self EXCEPT !.tocEntries = Append(@, [entryName |-> _classname_to_filename(_class.name)])]

\* EnumsPage._translate_enum_values: the loop appends one translated value
\* per enumerator of enum.enumerators.
RECURSIVE translate_enum_values_loop(_, _, _)
translate_enum_values_loop(self, enumerators, translatedEnumerators) ==
    IF enumerators = <<>> THEN translatedEnumerators
    ELSE LET enumerator == Head(enumerators)
             translatedValue ==
                 [name |-> name_translate(enumerator, self.nameTranslator, FALSE),
                  briefDesc |-> doc_translate(enumerator, self.docTranslator),
                  value |-> translate_value(enumerator, self.langTranslator)]
         IN  translate_enum_values_loop(self, Tail(enumerators),
                                        Append(translatedEnumerators, translatedValue))

\* Variant: each translated value is inserted at the front of the list.
RECURSIVE translate_enum_values_prepend_loop(_, _, _)
translate_enum_values_prepend_loop(self, enumerators, translatedEnumerators) ==
    IF enumerators = <<>> THEN translatedEnumerators
    ELSE LET enumerator == Head(enumerators)
             translatedValue ==
                 [name |-> name_translate(enumerator, self.nameTranslator, FALSE),
                  briefDesc |-> doc_translate(enumerator, self.docTranslator),
                  value |-> translate_value(enumerator, self.langTranslator)]
         IN  translate_enum_values_prepend_loop(self, Tail(enumerators),
                                                <<translatedValue>> \o translatedEnumerators)

_translate_enum_values_prepend(self, enum) ==
    translate_enum_values_prepend_loop(self, enum.enumerators, <<>>)

_translate_enum_values(self, enum) ==
    translate_enum_values_loop(self, enum.enumerators, <<>>)

\* EnumsPage._translate_enums
RECURSIVE translate_enums_loop(_, _, _)
translate_enums_loop(self, enums, acc) ==
    IF enums = <<>> THEN acc
    ELSE LET enum == Head(enums)
             translatedName == name_translate(enum.name, self.nameTranslator, FALSE)
             translatedEnum ==
                 [name |-> translatedName,
                  fullName |-> name_translate(enum.name, self.nameTranslator, TRUE),
                  briefDesc |-> doc_translate(enum.name, self.docTranslator),
                  enumerators |-> _translate_enum_values(self, enum),
                  sectionName |-> make_section(translatedName, "=", FALSE)]
         IN  translate_enums_loop(self, Tail(enums), Append(acc, translatedEnum))

_translate_enums(self, enums) == translate_enums_loop(self, enums, <<>>)

\* EnumsPage.__init__
EnumsPage_init(language, enums) ==
    LET base == SphinxPage_init(language, <<"enums", ".rst">>)
    IN  IF base.kind = "Raise" THEN base
        ELSE [kind |-> "EnumsPage", enums |-> _translate_enums(base, enums)] @@ base

\* ClassPage._translate_methods
RECURSIVE translate_methods_loop(_, _, _)
translate_methods_loop(self, methods, translatedMethods) ==
    IF methods = <<>> THEN translatedMethods
    ELSE LET method == Head(methods)
             methAttr == [prototype |-> translate_as_prototype(method, self.langTranslator),
                          brief |-> doc_translate(method, self.docTranslator)]
         IN  translate_methods_loop(self, Tail(methods), Append(translatedMethods, methAttr))

_translate_methods(self, methods) == translate_methods_loop(self, methods, <<>>)

\* ClassPage._get_translated_namespace: the name of the enclosing namespace.
_get_translated_namespace(self, _class) ==
    name_translate(SubSeq(_class.name, 1, Len(_class.name) - 1), self.nameTranslator, TRUE)

\* ClassPage.__init__
ClassPage_init(_class, language) ==
    LET filename == _classname_to_filename(_class.name)
        base == SphinxPage_init(language, filename)
    IN  IF base.kind = "Raise" THEN base
        ELSE [kind |-> "ClassPage",
              namespace |-> _get_translated_namespace(base, _class),
              className |-> name_translate(_class.name, base.nameTranslator, FALSE),
              fullClassName |-> name_translate(_class.name, base.nameTranslator, TRUE),
              classBrief |-> doc_translate(_class.name, base.docTranslator),
              methods |-> _translate_methods(base, _class.instanceMethods),
              classMethods |-> _translate_methods(base, _class.classMethods)] @@ base

\* ClassPage._has_methods: len(self.methods) > 0, a bool.
_has_methods(self) ==
    [type |-> "bool", val |-> IF Len(self.methods) > 0 THEN 1 ELSE 0]

\* ClassPage._has_class_methods: len(self.classMethods), an int.
_has_class_methods(self) ==
    [type |-> "int", val |-> Len(self.classMethods)]

\* pystache.Renderer().render(page): the text is a function of the data the
\* template reads from the page, the properties of a class page included.
Render(self) ==
    [page |-> self,
     properties |-> IF self.kind = "ClassPage"
                    THEN <<[name |-> "hasMethods", value |-> _has_methods(self)],
                           [name |-> "hasClassMethods", value |-> _has_class_methods(self)]>>
                    ELSE <<>>]

\* --------------------------------------------------------------- generator
\* DocGenerator.__init__
\* Variant: the languages in the other order.
DocGenerator_languages_reversed == <<"C++", "C">>

DocGenerator_languages == <<"C", "C++">>

DocGenerator_init(api) ==
    [kind |-> "DocGenerator", api |-> api, languages |-> DocGenerator_languages]

\* DocGenerator._get_subdirectory
_get_subdirectory(lang) ==
    LET loweredLang == Lower(lang)
    IN  IF loweredLang = "c" THEN [exc |-> "none", value |-> "c"]
        ELSE IF loweredLang = "c++" THEN [exc |-> "none", value |-> "cpp"]
        ELSE [exc |-> "ValueError", value |-> ""]

\* ------------------------------------------------------------- file system
\* The file system: the directories that exist and the content of every
\* file, a file's content being the sequence of texts written to it since it
\* was last truncated.
path_join(dirpath, filename) == [dir |-> dirpath, name |-> filename]

EmptyFs == [dirs |-> { <<d>> : d \in Dirs }, files |-> <<>>]

\* A file system holding the output of some earlier, different project.
StaleFs ==
    [dirs |-> { <<d>> : d \in Dirs } \cup { <<"out1", "c">> },
     files |-> path_join(<<"out1", "c">>, <<"enums", ".rst">>) :> <<[page |-> None, properties |-> <<>>]>>]

\* Variant: the directory is created without looking.
NeedsMkdir_always(dirpath, fsys) == TRUE

\* os.path.exists(directory), negated: line 170.
NeedsMkdir(dirpath, fsys) == dirpath \notin fsys.dirs

\* os.mkdir(directory): fails when the dirpath exists or the system
\* refuses; outcome is the system's answer.
os_mkdir(fsys, dirpath, outcome) ==
    IF dirpath \in fsys.dirs \/ outcome # "ok"
    THEN [exc |-> "OSError", fs |-> fsys]
    ELSE [exc |-> "none", fs |-> [fsys EXCEPT !.dirs = @ \cup {dirpath}]]

WriteOutcomes == {"ok", "open_fails", "write_fails"}

\* SphinxPage.write: open(filepath, 'w') truncates the file, f.write puts the
\* rendered text in it. open can fail (the file is untouched) and the write
\* can fail after the truncation.
SetFile(fsys, filepath, content) ==
    [fsys EXCEPT !.files =
        IF filepath \in DOMAIN @ THEN [@ EXCEPT ![filepath] = content]
        ELSE @ @@ (filepath :> content)]

\* Variant: a failed write removes the files of the directory.
SphinxPage_write_cleanup(fsys, self, dirpath, outcome) ==
    LET filepath == path_join(dirpath, self.filename)
    IN  IF dirpath \notin fsys.dirs \/ outcome # "ok"
        THEN [exc |-> "IOError",
              fs |-> [fsys EXCEPT !.files =
                         [q \in { q \in DOMAIN @ : q.dir # dirpath } |-> @[q]]]]
        ELSE [exc |-> "none", fs |-> SetFile(fsys, filepath, <<Render(self)>>)]

SphinxPage_write(fsys, self, dirpath, outcome) ==
    LET filepath == path_join(dirpath, self.filename)
    IN  IF dirpath \notin fsys.dirs \/ outcome = "open_fails"
        THEN [exc |-> "IOError", fs |-> fsys]
        ELSE IF outcome = "write_fails"
        THEN [exc |-> "IOError", fs |-> SetFile(fsys, filepath, <<>>)]
        ELSE [exc |-> "none", fs |-> SetFile(fsys, filepath, <<Render(self)>>)]

\* ----------------------------------------------------------------- actions
inputs == <<argv, run, runStartFs, call>>
faults == <<ioFault, failedPath>>
globals == <<args, absApiParser, docGenerator, outputdir>>
locals == <<langIdx, directory, enumsPage, indexPage, classIdx, page>>

NoCall == [op |-> "none", language |-> "", arg |-> <<>>, ret |-> <<>>]

Init ==
    /\ argv \in [consistent : BOOLEAN, project : Projects, outputdir : Dirs]
    /\ args = None
    /\ absApiParser = None
    /\ docGenerator = None
    /\ outputdir = ""
    /\ pc = "main"
    /\ langIdx = 1
    /\ directory = <<>>
    /\ enumsPage = None
    /\ indexPage = None
    /\ classIdx = 1
    /\ page = None
    /\ fs \in {EmptyFs, StaleFs}
    /\ exc = "none"
    /\ run = 1
    /\ runStartFs = fs
    /\ log = <<>>
    /\ mkdirCalls = 0
    /\ call = NoCall
    /\ ioFault = FALSE
    /\ failedPath = <<>>

\* capi.Project.check(): reports an inconsistent description by raising.
Project_check(consistent) == IF consistent THEN "none" ELSE "CheckError"

\* Variant: the outcome of the check is not looked at.
Main_check_unchecked ==
    /\ pc = "main"
    /\ args' = [kind |-> "Namespace", outputdir |-> argv.outputdir]
    /\ pc' = "parse" /\ exc' = exc
    /\ UNCHANGED <<faults, inputs, absApiParser, docGenerator, outputdir, locals, fs, log, mkdirCalls>>

\* Lines 195-202: parse the arguments, load the xml directory, check it.
Main_check ==
    /\ pc = "main"
    /\ args' = [kind |-> "Namespace", outputdir |-> argv.outputdir]
    /\ LET e == Project_check(argv.consistent)
       IN  IF e # "none" THEN pc' = "aborted" /\ exc' = e
           ELSE pc' = "parse" /\ exc' = exc
    /\ UNCHANGED <<faults, inputs, absApiParser, docGenerator, outputdir, locals, fs, log, mkdirCalls>>

\* Lines 204-205: absApiParser = CParser(cProject); parse_all().
Main_parse_all ==
    /\ pc = "parse"
    /\ absApiParser' = [kind |-> "CParser", enumsIndex |-> argv.project.enumsIndex,
                        classesIndex |-> argv.project.classesIndex]
    /\ pc' = "construct"
    /\ UNCHANGED <<faults, inputs, args, docGenerator, outputdir, locals, fs, exc, log, mkdirCalls>>

\* Line 207: DocGenerator(api). The script passes absApiParser; the
\* constructor accepts any api object.
Main_construct ==
    /\ pc = "construct"
    /\ \E api \in {absApiParser, OtherApi} : docGenerator' = DocGenerator_init(api)
    /\ pc' = "call"
    /\ UNCHANGED <<faults, inputs, args, absApiParser, outputdir, locals, fs, exc, log, mkdirCalls>>

\* Line 208 and line 166: generate(outputdir) is entered. The script passes
\* args.outputdir; the method accepts any directory.
Call_generate ==
    /\ pc = "call"
    /\ \E d \in Dirs : outputdir' = d
    /\ langIdx' = 1
    /\ pc' = "lang"
    /\ UNCHANGED <<faults, inputs, args, absApiParser, docGenerator, directory, enumsPage, indexPage,
                   classIdx, page, fs, exc, log, mkdirCalls>>

CurrentLang == docGenerator.languages[langIdx]

WriteEvent(dir, self) ==
    [ev |-> "write", dir |-> dir, file |-> self.filename, content |-> <<Render(self)>>]

EntryEvent(dir, entry) ==
    [ev |-> "entry", dir |-> dir, file |-> entry.entryName, content |-> <<>>]

\* Lines 167-171: next language, its subdirectory of args.outputdir, created
\* when it does not exist.
BeginLanguage ==
    /\ pc = "lang"
    /\ langIdx <= Len(docGenerator.languages)
    /\ LET subdirectory == _get_subdirectory(CurrentLang)
           dir == <<args.outputdir, subdirectory.value>>
       IN  IF subdirectory.exc # "none"
           THEN /\ pc' = "aborted" /\ exc' = subdirectory.exc
                /\ UNCHANGED <<directory, fs, mkdirCalls, ioFault>>
           ELSE /\ directory' = dir
                /\ IF NeedsMkdir(dir, fs)
                   THEN \E outcome \in {"ok", "fails"} :
                          LET r == os_mkdir(fs, dir, outcome)
                          IN  /\ mkdirCalls' = mkdirCalls + 1
                              /\ ioFault' = (ioFault \/ outcome # "ok")
                              /\ fs' = r.fs
                              /\ exc' = r.exc
                              /\ pc' = IF r.exc # "none" THEN "aborted" ELSE "enums"
                   ELSE /\ pc' = "enums"
                        /\ UNCHANGED <<fs, exc, mkdirCalls, ioFault>>
    /\ UNCHANGED <<inputs, globals, langIdx, enumsPage, indexPage, classIdx, page, log, failedPath>>

\* The effect of page.write(directory) on fs, exc, log and pc.
DoWrite(self, next) ==
    \E outcome \in WriteOutcomes :
        LET r == SphinxPage_write(fs, self, directory, outcome)
        IN  /\ fs' = r.fs
            /\ exc' = r.exc
            /\ ioFault' = (ioFault \/ outcome # "ok")
            /\ failedPath' = IF r.exc # "none" THEN <<path_join(directory, self.filename)>>
                              ELSE failedPath
            /\ IF r.exc # "none"
               THEN pc' = "aborted" /\ log' = log
               ELSE pc' = next /\ log' = Append(log, WriteEvent(directory, self))

\* Lines 173-174: build the enums page from absApiParser.enumsIndex, write it.
WriteEnums ==
    /\ pc = "enums"
    /\ LET p == EnumsPage_init(CurrentLang, absApiParser.enumsIndex)
       IN  IF p.kind = "Raise"
           THEN /\ pc' = "aborted" /\ exc' = p.exc
                /\ UNCHANGED <<enumsPage, fs, log, faults>>
           ELSE /\ enumsPage' = p
                /\ DoWrite(p, "index")
    /\ UNCHANGED <<inputs, globals, langIdx, directory, indexPage, classIdx, page, mkdirCalls>>

\* Line 176, and the start of the loop of line 177.
NewIndex ==
    /\ pc = "index"
    /\ LET p == IndexPage_init(CurrentLang)
       IN  IF p.kind = "Raise"
           THEN pc' = "aborted" /\ exc' = p.exc /\ UNCHANGED indexPage
           ELSE pc' = "class" /\ exc' = exc /\ indexPage' = p
    /\ classIdx' = 1
    /\ UNCHANGED <<faults, inputs, globals, langIdx, directory, enumsPage, page, fs, log, mkdirCalls>>

\* Lines 177-179: next class of absApiParser.classesIndex, its page built and
\* written.
WriteClass ==
    /\ pc = "class"
    /\ classIdx <= Len(absApiParser.classesIndex)
    /\ LET p == ClassPage_init(absApiParser.classesIndex[classIdx], CurrentLang)
       IN  IF p.kind = "Raise"
           THEN /\ pc' = "aborted" /\ exc' = p.exc
                /\ UNCHANGED <<page, fs, log, faults>>
           ELSE /\ page' = p
                /\ DoWrite(p, "entry")
    /\ UNCHANGED <<inputs, globals, langIdx, directory, enumsPage, indexPage, classIdx, mkdirCalls>>

\* Line 180: indexPage.add_class_entry(_class).
AddEntry ==
    /\ pc = "entry"
    /\ indexPage' = add_class_entry(indexPage, absApiParser.classesIndex[classIdx])
    /\ log' = Append(log, EntryEvent(directory, indexPage'.tocEntries[Len(indexPage'.tocEntries)]))
    /\ classIdx' = classIdx + 1
    /\ pc' = "class"
    /\ UNCHANGED <<faults, inputs, globals, langIdx, directory, enumsPage, page, fs, exc, mkdirCalls>>

\* Line 182: the loop over the classes is over, the index page is written.
WriteIndex ==
    /\ pc = "class"
    /\ classIdx > Len(absApiParser.classesIndex)
    /\ DoWrite(indexPage, "lang")
    /\ langIdx' = IF exc' = "none" THEN langIdx + 1 ELSE langIdx
    /\ UNCHANGED <<inputs, globals, directory, enumsPage, indexPage, classIdx, page, mkdirCalls>>

\* The loop over the languages is over: generate returns, the script ends.
EndGenerate ==
    /\ pc = "lang"
    /\ langIdx > Len(docGenerator.languages)
    /\ pc' = "done"
    /\ UNCHANGED <<faults, inputs, globals, locals, fs, exc, log, mkdirCalls>>

\* The script is run again on the same command line and the same xml
\* directory, on the file system the previous execution left.
RunAgain ==
    /\ pc = "done"
    /\ run < MaxRuns
    /\ run' = run + 1
    /\ runStartFs' = fs
    /\ args' = None /\ absApiParser' = None /\ docGenerator' = None /\ outputdir' = ""
    /\ pc' = "main"
    /\ langIdx' = 1 /\ directory' = <<>> /\ enumsPage' = None /\ indexPage' = None
    /\ classIdx' = 1 /\ page' = None
    /\ log' = <<>> /\ mkdirCalls' = 0
    /\ UNCHANGED <<argv, fs, exc, call, faults>>

Next ==
    \/ Main_check
    \/ Main_parse_all
    \/ Main_construct
    \/ Call_generate
    \/ BeginLanguage
    \/ WriteEnums
    \/ NewIndex
    \/ WriteClass
    \/ AddEntry
    \/ WriteIndex
    \/ EndGenerate
    \/ RunAgain

Spec == Init /\ [][Next]_vars

\* ------------------------------------------------------------- library use
\* The page constructors and _get_subdirectory called directly, with any
\* language string. call records the call and its return value, exc the
\* exception it raised.
InitPages ==
    /\ argv = [consistent |-> TRUE, project |-> [enumsIndex |-> <<>>, classesIndex |-> <<>>],
               outputdir |-> "out1"]
    /\ args = None
    /\ absApiParser = None
    /\ docGenerator = None
    /\ outputdir = ""
    /\ pc = "library"
    /\ langIdx = 1
    /\ directory = <<>>
    /\ enumsPage = None
    /\ indexPage = None
    /\ classIdx = 1
    /\ page = None
    /\ fs \in {EmptyFs, StaleFs}
    /\ exc = "none"
    /\ run = 1
    /\ runStartFs = fs
    /\ log = <<>>
    /\ mkdirCalls = 0
    /\ call = NoCall
    /\ ioFault = FALSE
    /\ failedPath = <<>>

\* The outcome of a constructor call: the object, or the exception.
Returned(op, language, arg, r) ==
    /\ call' = [op |-> op, language |-> language, arg |-> arg,
                ret |-> IF r.kind = "Raise" THEN <<>> ELSE <<r>>]
    /\ exc' = IF r.kind = "Raise" THEN r.exc ELSE "none"
    /\ UNCHANGED <<argv, globals, pc, locals, fs, run, runStartFs, log, mkdirCalls, faults>>

New_IndexPage ==
    /\ pc = "library"
    /\ \E language \in LangStrings :
          Returned("IndexPage", language, <<>>, IndexPage_init(language))

New_EnumsPage ==
    /\ pc = "library"
    /\ \E language \in LangStrings, enums \in SeqsUpTo(EnumPool, MaxEnums) :
          Returned("EnumsPage", language, enums, EnumsPage_init(language, enums))

New_ClassPage ==
    /\ pc = "library"
    /\ \E language \in LangStrings, _class \in ClassPool :
          Returned("ClassPage", language, <<_class>>, ClassPage_init(_class, language))

Call_get_subdirectory ==
    /\ pc = "library"
    /\ \E lang \in LangStrings :
          LET r == _get_subdirectory(lang)
          IN  Returned("_get_subdirectory", lang, <<>>,
                       IF r.exc # "none" THEN Raise(r.exc)
                       ELSE [kind |-> "str", value |-> r.value])

NextPages ==
    \/ New_IndexPage
    \/ New_EnumsPage
    \/ New_ClassPage
    \/ Call_get_subdirectory

SpecPages == InitPages /\ [][NextPages]_vars

\* ---------------------------------------------------------------- properties
IndexFile == <<"index", ".rst">>
EnumsFile == <<"enums", ".rst">>

IsWrite(e) == e.ev = "write"
IsIndexWrite(e) == e.ev = "write" /\ e.file = IndexFile /\ e.content[1].page.kind = "IndexPage"

\* The files after the writes of events, each write replacing the content.
RECURSIVE FilesAfter(_, _)
FilesAfter(files, events) ==
    IF events = <<>> THEN files
    ELSE LET e == Head(events)
             p == [dir |-> e.dir, name |-> e.file]
             replaced == IF p \in DOMAIN files THEN [files EXCEPT ![p] = e.content]
                         ELSE files @@ (p :> e.content)
         IN  FilesAfter(IF IsWrite(e) THEN replaced ELSE files, Tail(events))

\* C1: every entry that add_class_entry appends to the index is the file
\* name of the class page written just before it for the same class, in the
\* same language subdirectory, and that file exists.
C1_IndexEntryNamesClassPage ==
    \A i \in DOMAIN log :
        log[i].ev = "entry" =>
            /\ i > 1
            /\ IsWrite(log[i - 1])
            /\ log[i - 1].content[1].page.kind = "ClassPage"
            /\ log[i - 1].file = log[i].file
            /\ log[i - 1].dir = log[i].dir
            /\ [dir |-> log[i].dir, name |-> log[i].file] \in DOMAIN fs.files

C1_Witness ==
    \E i \in DOMAIN log :
        /\ log[i].ev = "entry"
        /\ log[i].dir[2] = "cpp"
        /\ log[i].file = <<"foo", "_", "bar", "_", "baz", ".rst">>

\* C2: a constructor of IndexPage, EnumsPage or ClassPage, or
\* _get_subdirectory, called with a language whose lower-case form is
\* neither 'c' nor 'c++' raises ValueError, returns nothing, and leaves the
\* file system as it was: no directory created, no file written.
C2_UnsupportedLanguageRaises ==
    (call.op # "none" /\ Lower(call.language) \notin {"c", "c++"}) =>
        /\ exc = "ValueError"
        /\ call.ret = <<>>
        /\ fs = runStartFs

C2_Witness ==
    /\ call.op = "ClassPage"
    /\ call.language = "Java"
    /\ exc = "ValueError"

\* C3: hasMethods equals True exactly when the instance-method list is
\* non-empty and False when it is empty, and hasClassMethods likewise for the
\* class-method list (values compared as Python's == compares them, under
\* which the integers 1 and 0 equal True and False).
EqualsBool(v, b) == v.val = (IF b THEN 1 ELSE 0)

C3_FlagsAreBooleans ==
    page.kind = "ClassPage" =>
        /\ EqualsBool(_has_methods(page), Len(page.methods) > 0)
        /\ EqualsBool(_has_class_methods(page), Len(page.classMethods) > 0)

\* C4: generate(outputdir) creates directories and writes files only under
\* its outputdir argument, and builds the pages from the api object given to
\* the constructor.
C4_UsesItsArguments ==
    /\ \A i \in DOMAIN log : log[i].dir[1] = outputdir
    /\ \A d \in fs.dirs \ runStartFs.dirs : d[1] = outputdir
    /\ (pc \in {"index", "class", "entry"} /\ enumsPage.kind = "EnumsPage") =>
           enumsPage = EnumsPage_init(CurrentLang, docGenerator.api.enumsIndex)
    /\ pc = "entry" =>
           page = ClassPage_init(docGenerator.api.classesIndex[classIdx], CurrentLang)

\* C5: the write events of a run are, in this order: for C and then for C++,
\* the enums page, then for every class in iteration order its page followed
\* by its index entry, then the index page; a run that ends without failure
\* has produced all of them.
RECURSIVE ClassEvents(_, _)
ClassEvents(sub, classes) ==
    IF classes = <<>> THEN <<>>
    ELSE LET f == to_snake_case(Head(classes).name, TRUE) \o <<".rst">>
         IN  <<[ev |-> "write", sub |-> sub, file |-> f],
               [ev |-> "entry", sub |-> sub, file |-> f]>> \o ClassEvents(sub, Tail(classes))

LanguageEvents(sub, classes) ==
    <<[ev |-> "write", sub |-> sub, file |-> EnumsFile]>>
    \o ClassEvents(sub, classes)
    \o <<[ev |-> "write", sub |-> sub, file |-> IndexFile]>>

ExpectedEvents(classes) == LanguageEvents("c", classes) \o LanguageEvents("cpp", classes)

Shape(events) ==
    [i \in DOMAIN events |-> [ev |-> events[i].ev, sub |-> events[i].dir[2], file |-> events[i].file]]

C5_WriteOrder ==
    (log # <<>> \/ pc = "done") =>
        LET expected == ExpectedEvents(absApiParser.classesIndex)
        IN  /\ Len(log) <= Len(expected)
            /\ Shape(log) = SubSeq(expected, 1, Len(log))
            /\ pc = "done" => Len(log) = Len(expected)

C5_Witness ==
    /\ pc = "done"
    /\ Len(absApiParser.classesIndex) = 2
    /\ Len(log) = 12

\* C6: the enums page lists the enums in the order of the input sequence and,
\* for each enum, one translated enumerator per declared enumerator, in the
\* declared order.
C6_EnumeratorOrder ==
    enumsPage.kind = "EnumsPage" =>
        LET enums == absApiParser.enumsIndex
        IN  /\ Len(enumsPage.enums) = Len(enums)
            /\ \A i \in DOMAIN enums :
                 LET t == enumsPage.enums[i]
                 IN  /\ t.name.of = enums[i].name
                     /\ Len(t.enumerators) = Len(enums[i].enumerators)
                     /\ \A j \in DOMAIN enums[i].enumerators :
                          /\ t.enumerators[j].name.of = enums[i].enumerators[j]
                          /\ t.enumerators[j].name.by = enumsPage.nameTranslator
                          /\ t.enumerators[j].briefDesc.briefOf = enums[i].enumerators[j]
                          /\ t.enumerators[j].value.valueOf = enums[i].enumerators[j]

C6_Witness ==
    /\ enumsPage.kind = "EnumsPage"
    /\ Len(enumsPage.enums) = 2
    /\ Len(enumsPage.enums[1].enumerators) = 3
    /\ enumsPage.enums[1].enumerators[1].name.of = "C"

\* C7: when the check of the parsed input fails, the script stops there: no
\* directory is created and no file is written.
C7_CheckFailureWritesNothing ==
    ~argv.consistent =>
        /\ pc \in {"main", "aborted"}
        /\ pc = "aborted" => exc = "CheckError"
        /\ fs = runStartFs
        /\ log = <<>>
        /\ mkdirCalls = 0

C7_Witness ==
    /\ ~argv.consistent
    /\ pc = "aborted"
    /\ exc = "CheckError"

\* C8: a second execution on the output of a first one, with the same
\* project, calls no mkdir, fails only if the system refuses an operation,
\* and ends with the same files with the same contents; every write leaves
\* in its file exactly the text written.
C8_RerunReproducesOutput ==
    /\ run >= 2 => mkdirCalls = 0
    /\ (~ioFault /\ argv.consistent) => exc = "none"
    /\ (run >= 2 /\ pc = "done") => fs = runStartFs
    /\ pc # "aborted" => fs.files = FilesAfter(runStartFs.files, log)

C8_Witness ==
    /\ run = 2
    /\ pc = "done"
    /\ Len(log) = 12
    /\ [dir |-> <<argv.outputdir, "cpp">>, name |-> IndexFile] \in DOMAIN fs.files

\* C9 as stated: after an I/O failure the run has stopped and every file
\* written before the failure has the content it had.
C9_AllEarlierFilesUnchanged ==
    ioFault =>
        /\ pc = "aborted"
        /\ LET before == FilesAfter(runStartFs.files, log)
           IN  \A p \in DOMAIN before : p \in DOMAIN fs.files /\ fs.files[p] = before[p]

\* C9, amended: after an I/O failure the run has stopped with that error, no
\* directory is removed, no file other than those of the earlier steps and
\* the one whose write failed exists, and every file written before the
\* failure has the content it had, except the file whose write failed, which
\* may be left empty.
C9_AbortKeepsEarlierOutput ==
    ioFault =>
        /\ pc = "aborted"
        /\ exc \in {"OSError", "IOError"}
        /\ runStartFs.dirs \subseteq fs.dirs
        /\ LET before == FilesAfter(runStartFs.files, log)
           IN  /\ \A p \in DOMAIN before :
                    /\ p \in DOMAIN fs.files
                    /\ \/ fs.files[p] = before[p]
                       \/ failedPath = <<p>> /\ fs.files[p] = <<>>
               /\ \A p \in DOMAIN fs.files : p \in DOMAIN before \/ failedPath = <<p>>

C9_Witness ==
    /\ ioFault
    /\ pc = "aborted"
    /\ exc = "IOError"
    /\ Len(log) >= 3
    /\ failedPath # <<>>
    /\ failedPath[1] \in DOMAIN fs.files
    /\ fs.files[failedPath[1]] = <<>>

\* C10: an index page is written with exactly one entry per class of the
\* project, in iteration order, each naming a file already written in the
\* same subdirectory during this run.
C10_IndexListsEveryClass ==
    \A i \in DOMAIN log :
        IsIndexWrite(log[i]) =>
            LET entries == log[i].content[1].page.tocEntries
                classes == absApiParser.classesIndex
            IN  /\ Len(entries) = Len(classes)
                /\ \A k \in DOMAIN classes :
                     /\ entries[k].entryName = to_snake_case(classes[k].name, TRUE) \o <<".rst">>
                     /\ \E j \in 1..(i - 1) :
                          /\ IsWrite(log[j])
                          /\ log[j].dir = log[i].dir
                          /\ log[j].file = entries[k].entryName

C10_Witness ==
    \E i \in DOMAIN log :
        /\ IsIndexWrite(log[i])
        /\ log[i].dir[2] = "cpp"
        /\ Len(log[i].content[1].page.tocEntries) = 2

====
